---- MODULE Spec2Model ----
(***************************************************************************)
(* A model of SftpClient (src/src/SftpClient.ts): the adapter that drives  *)
(* an `sftp` child process, writes commands to its stdin and correlates    *)
(* the lines of its output with the pending operations.                    *)
(*                                                                         *)
(* Strings are sequences of one-character strings, so that startsWith,     *)
(* split, trim, string destructuring and template literals are computed    *)
(* the way JavaScript computes them.                                       *)
(***************************************************************************)
EXTENDS Integers, Sequences, FiniteSets, TLC

\* ------------------------------------------------------------------ bounds
\* facade calls made on one client (each allocates at most one deferred)
MaxCalls == 1
\* length of the file list handed to uploadFiles / uploadFiles$
MaxFiles == 2
\* pwd() calls made on one client whose pwd() calls may overlap
MaxPwds == 2
\* facade calls made on one client whose calls of any kind may overlap
MaxOps == 2

\* ------------------------------------------------------- JavaScript values
\* `undefined`, kept apart from every string
Undefined == <<"<undefined>">>
\* the boolean true as a settled value
VTrue == <<"<true>">>
\* the value of a deferred that is not settled
NoValue == <<"<none>">>
\* the error with which waitForExit rejects after an unclean exit
ExitError == <<"<exit error>">>
\* the request to close the command channel, as it is queued behind the chunks
CloseMarker == <<"<close>">>
\* what a template literal prints for a value
TemplateStr(v) ==
    IF v = Undefined THEN <<"u","n","d","e","f","i","n","e","d">> ELSE v

\* ------------------------------------------------------- string functions
IsSpace(c) == c \in {" ", "\t", "\n", "\r"}

RECURSIVE TrimStart(_)
TrimStart(s) ==
    IF s = <<>> THEN <<>>
    ELSE IF IsSpace(Head(s)) THEN TrimStart(Tail(s)) ELSE s

RECURSIVE TrimEnd(_)
TrimEnd(s) ==
    IF s = <<>> THEN <<>>
    ELSE IF IsSpace(s[Len(s)]) THEN TrimEnd(SubSeq(s, 1, Len(s) - 1)) ELSE s

\* String.prototype.trim
Trim(s) == TrimEnd(TrimStart(s))

\* P.string.startsWith(prefix) / String.prototype.startsWith
StartsWith(s, prefix) ==
    /\ Len(s) >= Len(prefix)
    /\ SubSeq(s, 1, Len(prefix)) = prefix

\* String.prototype.split(sep) for a one-character separator:
\* the sequence of the pieces between the separators
RECURSIVE SplitFrom(_, _, _)
SplitFrom(s, sep, cur) ==
    IF s = <<>> THEN <<cur>>
    ELSE IF Head(s) = sep THEN <<cur>> \o SplitFrom(Tail(s), sep, <<>>)
    ELSE SplitFrom(Tail(s), sep, Append(cur, Head(s)))

Split(s, sep) == SplitFrom(s, sep, <<>>)

\* array destructuring `const [.., x, ..] = arr`: element i (1-based) or undefined
Nth(arr, i) == IF i <= Len(arr) THEN arr[i] ELSE Undefined

\* destructuring a string iterates its characters: element i is a
\* one-character string, or undefined past the end
NthChar(str, i) == IF i <= Len(str) THEN <<str[i]>> ELSE Undefined

\* ----------------------------------------------------------- the alphabet
\* local paths handed to uploadFile
LocalPaths == { <<"p">>, <<"a",".","t","x","t">> }
\* remote paths: cd targets and pwd answers
RemotePaths == { <<"/","h","o","m","e","/","x">>, <<"/","s","r","v","/","a",":","b">> }
\* the optional remotePath argument of uploadFile
UploadTargets == { Undefined, <<"/","u","p">> }
\* the reasons the child gives for a failed cd
Reasons == { <<"N","o"," ","s","u","c","h"," ","f","i","l","e"," ","o","r"," ","d","i","r","e","c","t","o","r","y">> }
\* the remote path the child reports for an uploaded local file
ReportedRemote(localPath) == <<"/","u","p","/">> \o localPath

ConnectedLine ==
    <<"C","o","n","n","e","c","t","e","d"," ","t","o"," ","m","a","y","a","-","d","e","v",".">>
UploadingLine(localPath, remotePath) ==
    <<"U","p","l","o","a","d","i","n","g"," ">> \o localPath \o <<" ","t","o"," ">> \o remotePath
RemoteWdLine(path) ==
    <<"R","e","m","o","t","e"," ","w","o","r","k","i","n","g"," ","d","i","r","e","c","t","o","r","y",":"," ">> \o path
BashCdLine(path, reason) ==
    <<"-","b","a","s","h",":"," ","c","d",":"," ">> \o path \o <<":"," ">> \o reason
StatRemoteLine(reason) ==
    <<"s","t","a","t"," ","r","e","m","o","t","e",":"," ">> \o reason
PromptLine == <<"s","f","t","p",">"," ">>
\* a line of no recognized shape
UnknownLine == <<"F","e","t","c","h","i","n","g"," ","x">>
\* a `-bash: cd:` line that lacks the path and reason fields
ShortBashCdLine == <<"-","b","a","s","h",":"," ","c","d",":">>

\* every line the child may emit (none is blank: the pipeline filters those)
Lines ==
    {ConnectedLine, PromptLine, UnknownLine, ShortBashCdLine}
    \cup { UploadingLine(k, ReportedRemote(k)) : k \in LocalPaths }
    \cup { RemoteWdLine(p) : p \in RemotePaths }
    \cup { BashCdLine(p, r) : p \in RemotePaths, r \in Reasons }
    \cup { StatRemoteLine(r) : r \in Reasons }


\* ----------------------------------------------------------------- logger
LogModes == {"normal", "verbose", "silent", "only-unknown", "unknown-and-error"}

\* a constructor that starts the logger of `unknown-and-error` in mode
\* `normal` (a faulty variant of InitialLoggerMode)
InitialLoggerModeNotError(mode) ==
    IF mode = "only-unknown" THEN "silent"
    ELSE IF mode = "unknown-and-error" THEN "normal"
    ELSE mode

\* SftpClient constructor: the mode the SwitchableLogger is built with
InitialLoggerMode(mode) ==
    IF mode = "unknown-and-error" THEN "error"
    ELSE IF mode = "only-unknown" THEN "silent"
    ELSE mode

\* the modes of a SwitchableLogger
SwitchableModes == {"normal", "verbose", "silent", "error", "warn"}
\* the methods of a logger
Severities == {"debug", "log", "info", "warn", "error"}
\* messages and metadata lists handed to a logger method
LogMessages == {"m1", "m2", "m3"}
LogMetadata == { << >>, <<ExitError>>, <<VTrue, Undefined>> }

\* a SwitchableLogger that in mode `error` forwards warnings too (a faulty
\* variant of Forwards)
ForwardsWarnInError(mode, sev) ==
    CASE sev = "debug" -> mode = "verbose"
      [] sev = "log"   -> mode \in {"verbose", "normal"}
      [] sev = "info"  -> mode \in {"verbose", "normal"}
      [] sev = "warn"  -> mode \in {"verbose", "normal", "warn", "error"}
      [] sev = "error" -> mode \in {"verbose", "normal", "warn", "error"}

\* a SwitchableLogger that forwards errors in every mode (a faulty variant of Forwards)
ForwardsErrorAlways(mode, sev) ==
    CASE sev = "debug" -> mode = "verbose"
      [] sev = "log"   -> mode \in {"verbose", "normal"}
      [] sev = "info"  -> mode \in {"verbose", "normal"}
      [] sev = "warn"  -> mode \in {"verbose", "normal", "warn"}
      [] sev = "error" -> TRUE

\* SwitchableLogger.debug/log/info/warn/error: whether a call of severity
\* sev reaches the wrapped logger while the logger is in `mode`
Forwards(mode, sev) ==
    CASE sev = "debug" -> mode = "verbose"
      [] sev = "log"   -> mode \in {"verbose", "normal"}
      [] sev = "info"  -> mode \in {"verbose", "normal"}
      [] sev = "warn"  -> mode \in {"verbose", "normal", "warn"}
      [] sev = "error" -> mode \in {"verbose", "normal", "warn", "error"}

\* one call of this.logger.<sev>(msg, ...meta): the invocations of the wrapped
\* (external) logger it causes. msg names the message template, labelled says
\* whether the text starts with uploaderName, meta are the values printed.
LogCall(mode, sev, msg, labelled, meta) ==
    IF Forwards(mode, sev)
    THEN << [sev |-> sev, msg |-> msg, labelled |-> labelled, meta |-> meta] >>
    ELSE << >>


\* ------------------------------------------------------------------ state
VARIABLES
    logMode,          \* ClientOptions.logMode, fixed at construction
    loggerMode,       \* SwitchableLogger.logMode of this.logger
    stepLog,          \* invocations of the external logger made by the last step
    connected,        \* connectedDeferred: [state, value]
    inProgress,       \* this.inProgress: [pwd: {pending}, cd: {remotePath, pending}]
    uploadInProgress, \* this.uploadInProgress: local path -> call whose deferred it holds
    calls,            \* the facade calls made so far, each with the deferred it created
    stdin,            \* the chunks handed to this.clientIn.write, in order
    childPuts,        \* put commands the child has received and not yet answered
    childPwds,        \* how many pwd commands the child has received and not yet answered
    pipeErrored,      \* the line callback threw: the pipeTo has ended
    proc,             \* the child process: "running", "exitedOk", "exitedErr"
    batch,            \* the uploadFiles / uploadFiles$ run in progress
    peer              \* the fields of a second SftpClient instance

vars == << logMode, loggerMode, stepLog, connected, inProgress, uploadInProgress,
           calls, stdin, childPuts, childPwds, pipeErrored, proc, batch, peer >>

\* an absent inProgress.pwd / inProgress.cd (pending = 0: no deferred)
NoPwd == [pending |-> 0]
NoCd == [remotePath |-> Undefined, pending |-> 0]

\* no uploadFiles run
NoBatch == [kind |-> "none", files |-> <<>>, next |-> 1, cur |-> 0, state |-> "idle", result |-> <<>>]

\* the fields of the instance that the other variables describe, with its
\* child process and command channel
ThisInstance ==
    [loggerMode |-> loggerMode, connected |-> connected, inProgress |-> inProgress,
     uploadInProgress |-> uploadInProgress, calls |-> calls, stdin |-> stdin,
     childPuts |-> childPuts, childPwds |-> childPwds, pipeErrored |-> pipeErrored,
     proc |-> proc]

\* SftpClient constructor (the state after construction, process started)
Init ==
    /\ logMode \in LogModes
    /\ loggerMode = InitialLoggerMode(logMode)
    /\ stepLog = << >>
    /\ connected = [state |-> "pending", value |-> NoValue]
    /\ inProgress = [pwd |-> NoPwd, cd |-> NoCd]
    /\ uploadInProgress = [k \in LocalPaths |-> 0]
    /\ calls = << >>
    /\ stdin = << >>
    /\ childPuts = << >>
    /\ childPwds = 0
    /\ pipeErrored = FALSE
    /\ proc = "running"
    /\ batch = NoBatch
    /\ peer = ThisInstance

\* a SwitchableLogger constructed on its own, in any of its modes
InitLogger ==
    /\ logMode = "normal"
    /\ loggerMode \in SwitchableModes
    /\ stepLog = << >>
    /\ connected = [state |-> "pending", value |-> NoValue]
    /\ inProgress = [pwd |-> NoPwd, cd |-> NoCd]
    /\ uploadInProgress = [k \in LocalPaths |-> 0]
    /\ calls = << >>
    /\ stdin = << >>
    /\ childPuts = << >>
    /\ childPwds = 0
    /\ pipeErrored = FALSE
    /\ proc = "running"
    /\ batch = NoBatch
    /\ peer = ThisInstance

\* logger.<sev>(msg, ...meta) called on the SwitchableLogger
LoggerCall(sev, msg, meta) ==
    /\ stepLog' = LogCall(loggerMode, sev, msg, FALSE, meta)
    /\ UNCHANGED << logMode, peer, loggerMode, connected, inProgress, uploadInProgress,
                    calls, stdin, childPuts, childPwds, pipeErrored, proc, batch >>

\* an assignment to the public field logger.logMode
SetLoggerMode(mode) ==
    /\ loggerMode' = mode
    /\ stepLog' = << >>
    /\ UNCHANGED << logMode, peer, connected, inProgress, uploadInProgress,
                    calls, stdin, childPuts, childPwds, pipeErrored, proc, batch >>

\* ------------------------------------------------------------- deferreds
\* a deferred whose outcome a later resolve or reject replaces (a faulty
\* variant of SettleAt)
SettleAtOverwrite(cs, i, st, v) ==
    [cs EXCEPT ![i].dstate = st, ![i].dvalue = v]

\* DeferredPromise.resolve / reject of the deferred created by call i:
\* a promise settles once, a later resolve or reject is ignored
SettleAt(cs, i, st, v) ==
    IF cs[i].dstate = "pending"
    THEN [cs EXCEPT ![i].dstate = st, ![i].dvalue = v]
    ELSE cs

\* Map.get on uploadInProgress: the call registered for key, 0 when absent
UploadGet(key) == IF key \in DOMAIN uploadInProgress THEN uploadInProgress[key] ELSE 0

\* this.inProgress[command]: the call whose deferred is stored there, 0 when unset
InProgressOf(command) ==
    IF command = "pwd" THEN inProgress.pwd.pending
    ELSE IF command = "cd" THEN inProgress.cd.pending
    ELSE 0

\* the outcome of the promise that facade call i returned to its caller, with
\* the deferreds as in cs: an async function's promise stays pending until the
\* function returns and then follows the promise it returned
CallStateIn(cs, i) ==
    IF cs[i].pc \in {"awaitWrite", "awaitClose", "awaitExit", "awaitKill"} THEN "pending"
    ELSE IF cs[i].pc \in {"writeFailed", "closeFailed", "exitFailed"} THEN "rejected"
    ELSE IF cs[i].ret = 0 THEN "resolved"
    ELSE cs[cs[i].ret].dstate

\* the value (or rejection reason) that promise settled with
CallValueIn(cs, i) ==
    IF cs[i].pc = "returned" /\ cs[i].ret # 0 THEN cs[cs[i].ret].dvalue
    ELSE IF cs[i].pc = "returned" THEN Undefined
    ELSE IF cs[i].pc = "exitFailed" THEN ExitError
    ELSE NoValue

CallState(i) == CallStateIn(calls, i)
CallValue(i) == CallValueIn(calls, i)

\* ---------------------------------------------------- the line callback
\* the effect of one branch: the calls (deferreds) and connected afterwards,
\* the logger invocations, the logger mode afterwards, whether it threw
Effect(cs, conn, log, mode, threw) ==
    [calls |-> cs, connected |-> conn, log |-> log, mode |-> mode, threw |-> threw]

\* SftpClient.resolveInProgress
ResolveInProgress(command, value) ==
    LET lastCommand == InProgressOf(command) IN
    IF lastCommand = 0
    THEN Effect(calls, connected,
                LogCall(loggerMode, "error", "DEV ERROR resolve", FALSE, << >>)
                \o LogCall(loggerMode, "info", "command: value", FALSE, <<value>>),
                loggerMode, FALSE)
    ELSE Effect(SettleAt(calls, lastCommand, "resolved", value), connected,
                << >>, loggerMode, FALSE)

\* SftpClient.rejectInProgress
RejectInProgress(command, errorMessage) ==
    LET lastCommand == InProgressOf(command) IN
    IF lastCommand = 0
    THEN Effect(calls, connected,
                LogCall(loggerMode, "error", "DEV ERROR reject", FALSE, << >>)
                \o LogCall(loggerMode, "error", "errorMessage", FALSE, <<errorMessage>>),
                loggerMode, FALSE)
    ELSE Effect(SettleAt(calls, lastCommand, "rejected", errorMessage), connected,
                << >>, loggerMode, FALSE)

\* the template `cd into '${remotePath}' failed: ${reason}`
CdFailedMsg(remotePath, reason) ==
    <<"c","d"," ","i","n","t","o"," ","'">> \o TemplateStr(remotePath)
    \o <<"'"," ","f","a","i","l","e","d",":"," ">> \o TemplateStr(reason)

\* a Connected branch that only logs (a faulty variant of OnConnected)
OnConnectedLogsOnly(line) ==
    Effect(calls, connected,
           LogCall(loggerMode, "info", "connected to", TRUE, << >>),
           loggerMode, FALSE)

\* branch "Connected"
OnConnected(line) ==
    Effect(calls,
           IF connected.state = "pending"
           THEN [state |-> "resolved", value |-> VTrue] ELSE connected,
           LogCall(loggerMode, "info", "connected to", TRUE, << >>),
           loggerMode, FALSE)

\* `const [_uploading, localPath, _to, remotePath] = line`: line is a string,
\* so the pattern takes its 2nd and 4th characters
UploadingFields(line) ==
    [localPath |-> NthChar(line, 2), remotePath |-> NthChar(line, 4)]

\* an Uploading branch that rejects the upload it finds unless the remote
\* path it read is the root directory (a faulty variant of OnUploading)
OnUploadingMayReject(line) ==
    LET f == UploadingFields(line)
        upload == UploadGet(f.localPath)
    IN  IF upload = 0
        THEN Effect(calls, connected,
                    LogCall(loggerMode, "error", "STATE_MISSMATCH", TRUE,
                            <<f.localPath, f.remotePath>>),
                    loggerMode, FALSE)
        ELSE Effect(SettleAt(calls, upload,
                             IF f.remotePath = <<"/">> THEN "resolved" ELSE "rejected",
                             VTrue),
                    connected,
                    LogCall(loggerMode, "info", "Uploaded", TRUE,
                            <<f.localPath, f.remotePath>>),
                    loggerMode, FALSE)

\* branch "Uploading "
OnUploading(line) ==
    LET f == UploadingFields(line)
        upload == UploadGet(f.localPath)
    IN  IF upload = 0
        THEN Effect(calls, connected,
                    LogCall(loggerMode, "error", "STATE_MISSMATCH", TRUE,
                            <<f.localPath, f.remotePath>>),
                    loggerMode, FALSE)
        ELSE Effect(SettleAt(calls, upload, "resolved", VTrue), connected,
                    LogCall(loggerMode, "info", "Uploaded", TRUE,
                            <<f.localPath, f.remotePath>>),
                    loggerMode, FALSE)

\* `const [_part1, remotePath] = line.split(":")`
RemoteWdPath(line) == Nth(Split(line, ":"), 2)

\* branch "Remote working directory:"
OnRemoteWd(line) ==
    LET remotePath == RemoteWdPath(line) IN
    IF remotePath = Undefined
    THEN Effect(calls, connected, << >>, loggerMode, TRUE)
    ELSE ResolveInProgress("pwd", Trim(remotePath))

\* branch "-bash: cd:"; .trim() of an undefined field throws a TypeError
OnBashCd(line) ==
    LET parts == Split(line, ":")
        remotePath == Nth(parts, 3)
        reason == Nth(parts, 4)
    IN  IF remotePath = Undefined \/ reason = Undefined
        THEN Effect(calls, connected, << >>, loggerMode, TRUE)
        ELSE RejectInProgress("cd", CdFailedMsg(Trim(remotePath), Trim(reason)))

\* a "stat remote:" branch that reads the path from the line, as the
\* "-bash: cd:" branch does (a faulty variant of OnStatRemote)
OnStatRemoteParsed(line) ==
    LET parts == Split(line, ":")
        remotePath == Nth(parts, 3)
        reason == Nth(parts, 2)
    IN  IF reason = Undefined
        THEN Effect(calls, connected, << >>, loggerMode, TRUE)
        ELSE RejectInProgress("cd", CdFailedMsg(remotePath, Trim(reason)))

\* branch "stat remote:"
OnStatRemote(line) ==
    LET reason == Nth(Split(line, ":"), 2)
        cdCommand == inProgress.cd
    IN  IF reason = Undefined
        THEN Effect(calls, connected, << >>, loggerMode, TRUE)
        ELSE RejectInProgress("cd", CdFailedMsg(cdCommand.remotePath, Trim(reason)))

\* a prompt branch that resolves nothing (a faulty variant of OnPrompt)
OnPromptIgnored(line) == Effect(calls, connected, << >>, loggerMode, FALSE)

\* a prompt branch that resolves the outstanding pwd as well (a faulty
\* variant of OnPrompt)
OnPromptResolvesAll(line) ==
    IF inProgress.cd.pending # 0
    THEN ResolveInProgress("cd", Undefined)
    ELSE IF inProgress.pwd.pending # 0
    THEN ResolveInProgress("pwd", Undefined)
    ELSE Effect(calls, connected, << >>, loggerMode, FALSE)

\* branch "sftp>"
OnPrompt(line) ==
    IF inProgress.cd.pending # 0
    THEN ResolveInProgress("cd", Undefined)
    ELSE Effect(calls, connected, << >>, loggerMode, FALSE)

\* an otherwise branch that leaves the logger in "normal" (a faulty variant of OnOtherwise)
OnOtherwiseNoRestore(line) ==
    IF logMode \in {"only-unknown", "unknown-and-error"}
    THEN Effect(calls, connected,
                LogCall("normal", "log", "-> line", TRUE, <<line>>), "normal", FALSE)
    ELSE Effect(calls, connected,
                LogCall(loggerMode, "log", "-> line", TRUE, <<line>>), loggerMode, FALSE)

\* .otherwise(): an unrecognized line
OnOtherwise(line) ==
    IF logMode = "only-unknown"
    THEN Effect(calls, connected,
                LogCall("normal", "log", "-> line", TRUE, <<line>>), "silent", FALSE)
    ELSE IF logMode = "unknown-and-error"
    THEN Effect(calls, connected,
                LogCall("normal", "log", "-> line", TRUE, <<line>>), "error", FALSE)
    ELSE Effect(calls, connected,
                LogCall(loggerMode, "log", "-> line", TRUE, <<line>>), loggerMode, FALSE)

\* match(line).with(...): the first pattern that matches names the branch
Classify(line) ==
    IF StartsWith(line, <<"C","o","n","n","e","c","t","e","d">>) THEN "Connected"
    ELSE IF StartsWith(line, <<"U","p","l","o","a","d","i","n","g"," ">>) THEN "Uploading"
    ELSE IF StartsWith(line, <<"R","e","m","o","t","e"," ","w","o","r","k","i","n","g"," ","d","i","r","e","c","t","o","r","y",":">>)
         THEN "RemoteWd"
    ELSE IF StartsWith(line, <<"-","b","a","s","h",":"," ","c","d",":">>) THEN "BashCd"
    ELSE IF StartsWith(line, <<"s","t","a","t"," ","r","e","m","o","t","e",":">>) THEN "StatRemote"
    ELSE IF StartsWith(line, <<"s","f","t","p",">">>) THEN "Prompt"
    ELSE "Otherwise"

\* a callback that makes its debug call after the branch (a faulty variant
\* of LineEffect)
LineEffectDebugLast(line) ==
    LET tag == Classify(line)
        e == CASE tag = "Connected"  -> OnConnected(line)
               [] tag = "Uploading"  -> OnUploading(line)
               [] tag = "RemoteWd"   -> OnRemoteWd(line)
               [] tag = "BashCd"     -> OnBashCd(line)
               [] tag = "StatRemote" -> OnStatRemote(line)
               [] tag = "Prompt"     -> OnPrompt(line)
               [] OTHER              -> OnOtherwise(line)
    IN  [e EXCEPT !.log = e.log \o LogCall(loggerMode, "debug", "rawOut", TRUE, <<line>>)]

\* the callback given to simpleCallbackTarget: the debug call, then the branch
LineEffect(line) ==
    LET tag == Classify(line)
        e == CASE tag = "Connected"  -> OnConnected(line)
               [] tag = "Uploading"  -> OnUploading(line)
               [] tag = "RemoteWd"   -> OnRemoteWd(line)
               [] tag = "BashCd"     -> OnBashCd(line)
               [] tag = "StatRemote" -> OnStatRemote(line)
               [] tag = "Prompt"     -> OnPrompt(line)
               [] OTHER              -> OnOtherwise(line)
    IN  [e EXCEPT !.log = LogCall(loggerMode, "debug", "rawOut", TRUE, <<line>>) \o e.log]

\* the pipeline delivers one line to the callback
HandleLine(line) ==
    /\ ~pipeErrored
    /\ LET e == LineEffect(line) IN
        /\ calls' = e.calls
        /\ connected' = e.connected
        /\ stepLog' = e.log
        /\ loggerMode' = e.mode
        /\ pipeErrored' = e.threw
    /\ UNCHANGED << logMode, peer, inProgress, uploadInProgress, stdin, proc, batch >>


\* the pipeline delivers an unrecognized line to the callback and the log
\* method of the wrapped logger, a logger the user supplied, throws when it is
\* invoked: the statements of the branch after the call do not run
HandleLineLogThrows(line) ==
    /\ ~pipeErrored
    /\ Classify(line) = "Otherwise"
    /\ LET during == IF logMode \in {"only-unknown", "unknown-and-error"}
                     THEN "normal" ELSE loggerMode
       IN  /\ Forwards(during, "log")
           /\ stepLog' = LogCall(loggerMode, "debug", "rawOut", TRUE, <<line>>)
                         \o LogCall(during, "log", "-> line", TRUE, <<line>>)
           /\ loggerMode' = during
           /\ pipeErrored' = TRUE
    /\ UNCHANGED << logMode, peer, connected, calls, inProgress, uploadInProgress,
                    stdin, proc, batch >>

\* the child emits an unrecognized line, and logging it throws
EnvLineLogThrows ==
    /\ HandleLineLogThrows(UnknownLine)
    /\ UNCHANGED << childPuts, childPwds >>

\* ------------------------------------------------------------ the child
\* the local path an emitted line confirms, as the child means it
ConfirmedBy(line) ==
    { k \in LocalPaths : line = UploadingLine(k, ReportedRemote(k)) }

RECURSIVE RemoveFirst(_, _)
RemoveFirst(seq, ks) ==
    IF seq = << >> THEN << >>
    ELSE IF Head(seq) \in ks THEN Tail(seq)
    ELSE <<Head(seq)>> \o RemoveFirst(Tail(seq), ks)

\* the child emits some line and the pipeline delivers it
EnvLine ==
    \E line \in Lines :
        /\ HandleLine(line)
        /\ childPuts' = RemoveFirst(childPuts, ConfirmedBy(line))
        /\ childPwds' = IF Classify(line) = "RemoteWd" /\ childPwds > 0
                        THEN childPwds - 1 ELSE childPwds

\* the child answers the oldest put command it has received
ChildConfirm ==
    /\ childPuts # << >>
    /\ HandleLine(UploadingLine(Head(childPuts), ReportedRemote(Head(childPuts))))
    /\ childPuts' = Tail(childPuts)
    /\ UNCHANGED childPwds

\* the child reports that the connection is established
ChildConnects ==
    /\ HandleLine(ConnectedLine)
    /\ UNCHANGED << childPuts, childPwds >>

\* the child answers a pwd command it has received
ChildAnswerPwd ==
    /\ childPwds > 0
    /\ \E path \in RemotePaths : HandleLine(RemoteWdLine(path))
    /\ childPwds' = childPwds - 1
    /\ UNCHANGED childPuts

\* this.client.waitForExit().then(...).catch(...) of the constructor
ProcessExit(ok) ==
    /\ proc = "running"
    /\ proc' = IF ok THEN "exitedOk" ELSE "exitedErr"
    /\ stepLog' = IF ok
                  THEN LogCall(loggerMode, "info", "exited successfully", TRUE, << >>)
                  ELSE LogCall(loggerMode, "error", "exited unsuccessful", TRUE, << >>)
    /\ UNCHANGED << logMode, peer, loggerMode, connected, inProgress, uploadInProgress,
                    calls, stdin, childPuts, childPwds, pipeErrored, batch >>

\* ------------------------------------------------------------ the facade
\* a sendCommand that writes the command text as it is (a faulty variant of Chunk)
ChunkUnterminated(sftpCommand) == sftpCommand

\* sendCommand: the chunk `${sftpCommand}\n` handed to clientIn.write
Chunk(sftpCommand) == sftpCommand \o <<"\n">>

\* a facade call just made: its deferred pending, its write not yet completed
NewCall(op, arg, by) ==
    [op |-> op, arg |-> arg, by |-> by, pc |-> "awaitWrite", ret |-> 0,
     dstate |-> "pending", dvalue |-> NoValue, chunk |-> Len(stdin) + 1]

\* the calls of pwd, cd, ls and uploadFile that the user made
UserCalls ==
    { i \in DOMAIN calls : calls[i].by = "user" /\ calls[i].op \notin {"close", "kill"} }

\* close() of the channel's writer has been requested
ChannelClosed == \E q \in DOMAIN stdin : stdin[q] = CloseMarker

\* the chunk of call i was handed to the writer after its close() was
\* requested: the writer rejects such a write
WrittenAfterClose(i) ==
    \E q \in DOMAIN stdin : q < calls[i].chunk /\ stdin[q] = CloseMarker

\* a step of the facade calls the logger nowhere
Quiet == stepLog' = << >>

\* a pwd() whose registry slot is shared by all instances (a faulty variant
\* of PwdCall)
PwdCallSharedSlot(limit) ==
    /\ Cardinality(UserCalls) < limit
    /\ calls' = Append(calls, NewCall("pwd", << >>, "user"))
    /\ inProgress' = [inProgress EXCEPT !.pwd = [pending |-> Len(calls) + 1]]
    /\ peer' = [peer EXCEPT !.inProgress.pwd = [pending |-> Len(calls) + 1]]
    /\ stdin' = Append(stdin, Chunk(<<"p","w","d">>))
    /\ Quiet
    /\ UNCHANGED << logMode, loggerMode, connected, uploadInProgress, childPuts, childPwds,
                    pipeErrored, proc, batch >>

\* pwd(), up to its await, as one of at most `limit` calls of the user
PwdCall(limit) ==
    /\ Cardinality(UserCalls) < limit
    /\ calls' = Append(calls, NewCall("pwd", << >>, "user"))
    /\ inProgress' = [inProgress EXCEPT !.pwd = [pending |-> Len(calls) + 1]]
    /\ stdin' = Append(stdin, Chunk(<<"p","w","d">>))
    /\ Quiet
    /\ UNCHANGED << logMode, peer, loggerMode, connected, uploadInProgress, childPuts, childPwds,
                    pipeErrored, proc, batch >>

Pwd == PwdCall(MaxCalls)

\* the program turns to its other SftpClient instance: from now on the
\* variables describe that one, and `peer` the one they described
SwitchInstance ==
    /\ peer' = ThisInstance
    /\ loggerMode' = peer.loggerMode
    /\ connected' = peer.connected
    /\ inProgress' = peer.inProgress
    /\ uploadInProgress' = peer.uploadInProgress
    /\ calls' = peer.calls
    /\ stdin' = peer.stdin
    /\ childPuts' = peer.childPuts
    /\ childPwds' = peer.childPwds
    /\ pipeErrored' = peer.pipeErrored
    /\ proc' = peer.proc
    /\ Quiet
    /\ UNCHANGED << logMode, batch >>

\* pwd() called although another pwd() may still be outstanding
PwdConcurrent == PwdCall(MaxPwds)

\* cd(remotePath), up to its await, as one of at most `limit` calls of the user
CdCall(limit, remotePath) ==
    /\ Cardinality(UserCalls) < limit
    /\ calls' = Append(calls, NewCall("cd", remotePath, "user"))
    /\ inProgress' = [inProgress EXCEPT
                        !.cd = [remotePath |-> remotePath, pending |-> Len(calls) + 1]]
    /\ stdin' = Append(stdin, Chunk(<<"c","d"," ">> \o remotePath))
    /\ Quiet
    /\ UNCHANGED << logMode, peer, loggerMode, connected, uploadInProgress, childPuts, childPwds,
                    pipeErrored, proc, batch >>

Cd(remotePath) == CdCall(MaxCalls, remotePath)

\* cd(remotePath) called although other calls may still be outstanding
CdOverlapping(remotePath) == CdCall(MaxOps, remotePath)

\* pwd() called although other calls may still be outstanding
PwdOverlapping == PwdCall(MaxOps)

\* ls(), which registers nothing
Ls ==
    /\ Cardinality(UserCalls) < MaxCalls
    /\ calls' = Append(calls, NewCall("ls", << >>, "user"))
    /\ stdin' = Append(stdin, Chunk(<<"l","s">>))
    /\ Quiet
    /\ UNCHANGED << logMode, peer, loggerMode, connected, inProgress, uploadInProgress,
                    childPuts, childPwds, pipeErrored, proc, batch >>

\* `if (path)`: undefined and the empty string are falsy
Truthy(v) == v # Undefined /\ v # << >>

\* the command text that ls, lls, lcd, help, downloadFile and sendCommand
\* compose from their arguments
PlainCommand(op, arg) ==
    CASE op = "ls"  -> IF Truthy(arg) THEN <<"l","s"," ">> \o arg ELSE <<"l","s">>
      [] op = "lls" -> IF Truthy(arg) THEN <<"l","l","s"," ">> \o arg ELSE <<"l","l","s">>
      [] op = "lcd" -> <<"l","c","d"," ">> \o TemplateStr(arg)
      [] op = "help" -> <<"h","e","l","p">>
      [] op = "downloadFile" ->
            IF Truthy(arg[2])
            THEN <<"g","e","t"," ">> \o TemplateStr(arg[1]) \o <<" ">> \o arg[2]
            ELSE <<"g","e","t"," ">> \o TemplateStr(arg[1])
      [] op = "sendCommand" -> TemplateStr(arg)

\* the calls of those methods that are made: the method and its arguments
PlainCalls ==
    { <<"ls", Undefined>>, <<"ls", <<"/","u","p">> >>,
      <<"lls", Undefined>>, <<"lls", <<"p">> >>,
      <<"lcd", <<"p">> >>,
      <<"help", Undefined>>,
      <<"downloadFile", << <<"/","u","p">>, Undefined >> >>,
      <<"downloadFile", << <<"/","u","p">>, <<"p">> >> >>,
      <<"sendCommand", <<"b","y","e">> >> }

\* ls, lls, lcd, help, downloadFile or sendCommand called: the command is
\* handed to the channel and nothing is registered
PlainCall(op, arg) ==
    /\ Cardinality(UserCalls) < MaxOps
    /\ calls' = Append(calls, NewCall(op, arg, "user"))
    /\ stdin' = Append(stdin, Chunk(PlainCommand(op, arg)))
    /\ Quiet
    /\ UNCHANGED << logMode, peer, loggerMode, connected, inProgress, uploadInProgress,
                    childPuts, childPwds, pipeErrored, proc, batch >>

\* prepareFileUploadCommand: the command text
PutCommand(localPath, remotePath) ==
    IF remotePath # Undefined /\ remotePath # << >>
    THEN <<"p","u","t"," ">> \o localPath \o <<" ">> \o remotePath
    ELSE <<"p","u","t"," ">> \o localPath

\* an uploadFile that hands its command to the channel without having
\* registered the upload (a faulty variant of StartUpload)
StartUploadUnregistered(localPath, remotePath, by) ==
    /\ calls' = Append(calls, NewCall("uploadFile", localPath, by))
    /\ UNCHANGED uploadInProgress
    /\ stdin' = Append(stdin, Chunk(PutCommand(localPath, remotePath)))

\* uploadFile(localPath, remotePath), up to its await: prepareFileUploadCommand
\* registers the upload, sendCommand hands the command to the channel
StartUpload(localPath, remotePath, by) ==
    /\ calls' = Append(calls, NewCall("uploadFile", localPath, by))
    /\ uploadInProgress' = [uploadInProgress EXCEPT ![localPath] = Len(calls) + 1]
    /\ stdin' = Append(stdin, Chunk(PutCommand(localPath, remotePath)))

\* uploadFile called by the user, as one of at most `limit` calls
UploadFileCall(limit, localPath, remotePath) ==
    /\ Cardinality(UserCalls) < limit
    /\ StartUpload(localPath, remotePath, "user")
    /\ Quiet
    /\ UNCHANGED << logMode, peer, loggerMode, connected, inProgress, childPuts, childPwds,
                    pipeErrored, proc, batch >>

UploadFile(localPath, remotePath) == UploadFileCall(MaxCalls, localPath, remotePath)

\* uploadFile called although other calls may still be outstanding
UploadFileOverlapping(localPath) == UploadFileCall(MaxOps, localPath, Undefined)

\* the calls whose write has not completed; the channel completes them in order
Awaiting == { i \in DOMAIN calls : calls[i].pc = "awaitWrite" }
FirstAwaiting == CHOOSE i \in Awaiting : \A j \in Awaiting : i <= j

\* the promise a call returns once its `await this.sendCommand(...)` is over:
\* pwd and cd read this.inProgress again, uploadFile keeps its own object
ReturnedDeferred(i) ==
    CASE calls[i].op = "pwd"        -> inProgress.pwd.pending
      [] calls[i].op = "cd"         -> inProgress.cd.pending
      [] calls[i].op = "uploadFile" -> i
      [] OTHER                      -> 0

\* the write of the oldest waiting call completes and the call returns
WriteDone ==
    /\ Awaiting # {}
    /\ calls[FirstAwaiting].op # "close"
    /\ ~WrittenAfterClose(FirstAwaiting)
    /\ LET i == FirstAwaiting IN
        /\ calls' = [calls EXCEPT ![i].pc = "returned", ![i].ret = ReturnedDeferred(i)]
        /\ childPuts' = IF calls[i].op = "uploadFile"
                        THEN Append(childPuts, calls[i].arg) ELSE childPuts
        /\ childPwds' = IF calls[i].op = "pwd" THEN childPwds + 1 ELSE childPwds
    /\ Quiet
    /\ UNCHANGED << logMode, peer, loggerMode, connected, inProgress, uploadInProgress,
                    stdin, pipeErrored, proc, batch >>

\* the write of the oldest waiting call fails (the child is gone, or the
\* channel was closed before the write): the await throws and the call rejects
WriteFail ==
    /\ Awaiting # {}
    /\ IF proc # "running" THEN TRUE ELSE WrittenAfterClose(FirstAwaiting)
    /\ calls' = [calls EXCEPT ![FirstAwaiting].pc = "writeFailed"]
    /\ Quiet
    /\ UNCHANGED << logMode, peer, loggerMode, connected, inProgress, uploadInProgress,
                    stdin, childPuts, childPwds, pipeErrored, proc, batch >>

\* ------------------------------------------------------- close and kill
\* close(), up to its first await: the `exit` command is handed to the channel
Close ==
    /\ \A i \in DOMAIN calls : calls[i].op # "close"
    /\ calls' = Append(calls, NewCall("close", << >>, "user"))
    /\ stdin' = Append(stdin, Chunk(<<"e","x","i","t">>))
    /\ Quiet
    /\ UNCHANGED << logMode, peer, loggerMode, connected, inProgress, uploadInProgress,
                    childPuts, childPwds, pipeErrored, proc, batch >>

\* close(): the write of `exit` completes and close() asks the writer to close;
\* a writer that is already closing rejects the request and close() rejects
CloseWritten ==
    /\ Awaiting # {}
    /\ calls[FirstAwaiting].op = "close"
    /\ ~WrittenAfterClose(FirstAwaiting)
    /\ IF ChannelClosed
       THEN /\ calls' = [calls EXCEPT ![FirstAwaiting].pc = "closeFailed"]
            /\ UNCHANGED stdin
       ELSE /\ calls' = [calls EXCEPT ![FirstAwaiting].pc = "awaitClose"]
            /\ stdin' = Append(stdin, CloseMarker)
    /\ Quiet
    /\ UNCHANGED << logMode, peer, loggerMode, connected, inProgress, uploadInProgress,
                    childPuts, childPwds, pipeErrored, proc, batch >>

\* `await this.clientIn.close()` is over: close() goes on to await
\* waitForExit(), kill() goes on to call this.client.kill()
CloseDone ==
    \E i \in DOMAIN calls :
        /\ calls[i].pc = "awaitClose"
        /\ calls' = [calls EXCEPT ![i].pc = IF calls[i].op = "close"
                                            THEN "awaitExit" ELSE "awaitKill"]
        /\ Quiet
        /\ UNCHANGED << logMode, peer, loggerMode, connected, inProgress, uploadInProgress,
                        stdin, childPuts, childPwds, pipeErrored, proc, batch >>

\* a close() that returns without awaiting the exit of the process (a faulty
\* variant of CloseExit)
CloseExitEarly ==
    \E i \in DOMAIN calls :
        /\ calls[i].pc = "awaitExit"
        /\ calls' = [calls EXCEPT ![i].pc = "returned"]
        /\ Quiet
        /\ UNCHANGED << logMode, peer, loggerMode, connected, inProgress, uploadInProgress,
                        stdin, childPuts, childPwds, pipeErrored, proc, batch >>

\* a close() that logs the exit error and swallows it (a faulty variant of
\* CloseExit)
CloseExitSwallow ==
    \E i \in DOMAIN calls :
        /\ calls[i].pc = "awaitExit"
        /\ proc # "running"
        /\ calls' = [calls EXCEPT ![i].pc = "returned"]
        /\ stepLog' = IF proc = "exitedOk" THEN << >>
                      ELSE LogCall(loggerMode, "error", "Error while exiting", TRUE,
                                   <<ExitError>>)
        /\ UNCHANGED << logMode, peer, loggerMode, connected, inProgress, uploadInProgress,
                        stdin, childPuts, childPwds, pipeErrored, proc, batch >>

\* close(): waitForExit() settles; after an unclean exit the error is logged
\* and thrown again
CloseExit ==
    \E i \in DOMAIN calls :
        /\ calls[i].pc = "awaitExit"
        /\ proc # "running"
        /\ IF proc = "exitedOk"
           THEN /\ calls' = [calls EXCEPT ![i].pc = "returned"]
                /\ Quiet
           ELSE /\ calls' = [calls EXCEPT ![i].pc = "exitFailed"]
                /\ stepLog' = LogCall(loggerMode, "error", "Error while exiting", TRUE,
                                      <<ExitError>>)
        /\ UNCHANGED << logMode, peer, loggerMode, connected, inProgress, uploadInProgress,
                        stdin, childPuts, childPwds, pipeErrored, proc, batch >>

\* kill(), up to its first await: it asks the writer to close; a writer that
\* is already closing rejects the request and kill() rejects
Kill ==
    /\ \A i \in DOMAIN calls : calls[i].op # "kill"
    /\ calls' = Append(calls, [NewCall("kill", << >>, "user") EXCEPT
                                !.pc = IF ChannelClosed THEN "closeFailed" ELSE "awaitClose"])
    /\ stdin' = IF ChannelClosed THEN stdin ELSE Append(stdin, CloseMarker)
    /\ Quiet
    /\ UNCHANGED << logMode, peer, loggerMode, connected, inProgress, uploadInProgress,
                    childPuts, childPwds, pipeErrored, proc, batch >>

\* a kill() that rejects every deferred that is still pending (a faulty
\* variant of KillDone)
KillDoneSweeping ==
    \E i \in DOMAIN calls :
        /\ calls[i].pc = "awaitKill"
        /\ calls' = [j \in DOMAIN calls |->
                        IF j = i THEN [calls[j] EXCEPT !.pc = "returned"]
                        ELSE IF calls[j].dstate = "pending"
                        THEN [calls[j] EXCEPT !.dstate = "rejected"]
                        ELSE calls[j]]
        /\ proc' = IF proc = "running" THEN "exitedErr" ELSE proc
        /\ Quiet
        /\ UNCHANGED << logMode, peer, loggerMode, connected, inProgress, uploadInProgress,
                        stdin, childPuts, childPwds, pipeErrored, batch >>

\* kill(): this.client.kill() ends the child, if it still runs, with either
\* exit status; the exit handler of the constructor reports the exit
KillDone ==
    \E i \in DOMAIN calls :
        /\ calls[i].pc = "awaitKill"
        /\ calls' = [calls EXCEPT ![i].pc = "returned"]
        /\ IF proc = "running"
           THEN \E ok \in BOOLEAN :
                   /\ proc' = IF ok THEN "exitedOk" ELSE "exitedErr"
                   /\ stepLog' = IF ok
                                 THEN LogCall(loggerMode, "info", "exited successfully", TRUE, << >>)
                                 ELSE LogCall(loggerMode, "error", "exited unsuccessful", TRUE, << >>)
           ELSE Quiet /\ UNCHANGED proc
        /\ UNCHANGED << logMode, peer, loggerMode, connected, inProgress, uploadInProgress,
                        stdin, childPuts, childPwds, pipeErrored, batch >>

\* ------------------------------------------- uploadFiles and uploadFiles$
\* the file lists handed to uploadFiles
FileLists == UNION { [1..n -> LocalPaths] : n \in 0..MaxFiles }

\* uploadFiles(files): pMap is called and has not run its mapper yet
UploadFilesPMap(files) ==
    /\ batch.state = "idle"
    /\ batch' = [kind |-> "pMap", files |-> files, next |-> 1, cur |-> 0,
                 state |-> "running", result |-> << >>]
    /\ Quiet
    /\ UNCHANGED << logMode, peer, loggerMode, connected, inProgress, uploadInProgress,
                    calls, stdin, childPuts, childPwds, pipeErrored, proc >>

\* a subscription to uploadFiles$(files): from(files) emits at once and
\* concatMap runs its project function for the first file in the same step
UploadFilesRx(files) ==
    /\ batch.state = "idle"
    /\ IF files = << >>
       THEN /\ batch' = [kind |-> "concatMap", files |-> files, next |-> 1, cur |-> 0,
                         state |-> "resolved", result |-> << >>]
            /\ UNCHANGED << calls, uploadInProgress, stdin >>
       ELSE /\ StartUpload(files[1], Undefined, "batch")
            /\ batch' = [kind |-> "concatMap", files |-> files, next |-> 2,
                         cur |-> Len(calls) + 1, state |-> "running", result |-> << >>]
    /\ Quiet
    /\ UNCHANGED << logMode, peer, loggerMode, connected, inProgress, childPuts, childPwds,
                    pipeErrored, proc >>

\* what a finished uploadFile contributes: pMap collects the value, the
\* observable emits {file, nr}
BatchItem(b) ==
    IF b.kind = "pMap" THEN CallValue(b.cur)
    ELSE <<calls[b.cur].arg, <<b.next - 1>> >>

\* a run that starts every upload at once (a faulty variant of BatchStep)
BatchStepNoWait ==
    /\ batch.state = "running"
    /\ batch.next <= Len(batch.files)
    /\ StartUpload(batch.files[batch.next], Undefined, "batch")
    /\ batch' = [batch EXCEPT !.next = batch.next + 1, !.cur = Len(calls) + 1]
    /\ Quiet
    /\ UNCHANGED << logMode, peer, loggerMode, connected, inProgress, childPuts, childPwds,
                    pipeErrored, proc >>

\* pMap with concurrency 1 / concatMap: the mapper runs for the next file only
\* once the promise of the previous uploadFile is fulfilled; after the last
\* file the run resolves (the observable completes)
BatchStep ==
    /\ batch.state = "running"
    /\ IF batch.cur = 0 THEN TRUE ELSE CallState(batch.cur) = "resolved"
    /\ LET result == IF batch.cur = 0 THEN batch.result
                     ELSE Append(batch.result, BatchItem(batch))
       IN  IF batch.next > Len(batch.files)
           THEN /\ batch' = [batch EXCEPT !.state = "resolved", !.result = result, !.cur = 0]
                /\ UNCHANGED << calls, uploadInProgress, stdin >>
           ELSE /\ StartUpload(batch.files[batch.next], Undefined, "batch")
                /\ batch' = [batch EXCEPT !.next = batch.next + 1, !.result = result,
                                          !.cur = Len(calls) + 1]
    /\ Quiet
    /\ UNCHANGED << logMode, peer, loggerMode, connected, inProgress, childPuts, childPwds,
                    pipeErrored, proc >>

\* a rejected uploadFile rejects the run (the observable errors): no later
\* file is started
BatchFail ==
    /\ batch.state = "running"
    /\ batch.cur # 0
    /\ CallState(batch.cur) = "rejected"
    /\ batch' = [batch EXCEPT !.state = "rejected"]
    /\ Quiet
    /\ UNCHANGED << logMode, peer, loggerMode, connected, inProgress, uploadInProgress,
                    calls, stdin, childPuts, childPwds, pipeErrored, proc >>

\* ------------------------------------------------------ the specification
\* one client used through its single-operation methods
NextClient ==
    \/ EnvLine
    \/ ChildConfirm
    \/ ChildAnswerPwd
    \/ \E ok \in BOOLEAN : ProcessExit(ok)
    \/ Pwd
    \/ \E p \in RemotePaths : Cd(p)
    \/ Ls
    \/ \E k \in LocalPaths, r \in UploadTargets : UploadFile(k, r)
    \/ WriteDone
    \/ WriteFail

\* one client used through uploadFile only
NextUpload ==
    \/ EnvLine
    \/ ChildConfirm
    \/ \E ok \in BOOLEAN : ProcessExit(ok)
    \/ \E k \in LocalPaths, r \in UploadTargets : UploadFile(k, r)
    \/ WriteDone
    \/ WriteFail

\* one client used through uploadFiles / uploadFiles$
NextFiles ==
    \/ EnvLine
    \/ ChildConfirm
    \/ \E ok \in BOOLEAN : ProcessExit(ok)
    \/ \E files \in FileLists : UploadFilesPMap(files)
    \/ \E files \in FileLists : UploadFilesRx(files)
    \/ BatchStep
    \/ BatchFail
    \/ WriteDone
    \/ WriteFail

Next == NextClient \/ NextFiles

\* every log mode, every operation
Spec == Init /\ [][Next]_vars

\* the client constructed with one given logMode
InitMode(mode) == Init /\ logMode = mode

\* logMode "normal" (the default), single operations
SpecNormal == InitMode("normal") /\ [][NextClient]_vars
\* logMode "silent", single operations
SpecSilent == InitMode("silent") /\ [][NextClient]_vars
\* logMode "only-unknown", single operations
SpecOnlyUnknown == InitMode("only-unknown") /\ [][NextClient]_vars
\* logMode "unknown-and-error", uploadFile
SpecUnknownAndError == InitMode("unknown-and-error") /\ [][NextUpload]_vars
\* logMode "verbose" or "normal", uploadFile
InitDebug == Init /\ logMode \in {"verbose", "normal"}
SpecDebug == InitDebug /\ [][NextUpload]_vars
\* one client whose process stays alive and whose writes succeed, with a
\* child that may emit any line at any time
NextLines ==
    \/ EnvLine
    \/ Pwd
    \/ \E p \in RemotePaths : Cd(p)
    \/ Ls
    \/ \E k \in LocalPaths : UploadFile(k, Undefined)
    \/ WriteDone

\* logMode "verbose", single operations
SpecVerbose == InitMode("verbose") /\ [][NextLines]_vars
\* logMode "normal", uploadFiles and uploadFiles$
SpecFiles == InitMode("normal") /\ [][NextFiles]_vars

\* overlapping pwd() calls on one client
NextPwd ==
    \/ EnvLine
    \/ ChildAnswerPwd
    \/ \E ok \in BOOLEAN : ProcessExit(ok)
    \/ PwdConcurrent
    \/ WriteDone
    \/ WriteFail

\* one client that is closed while a pwd() may be outstanding
NextClose ==
    \/ EnvLine
    \/ \E ok \in BOOLEAN : ProcessExit(ok)
    \/ Pwd
    \/ WriteDone
    \/ WriteFail
    \/ Close
    \/ CloseWritten
    \/ CloseDone
    \/ CloseExit

\* logMode "normal": pwd and close
SpecClose == InitMode("normal") /\ [][NextClose]_vars

\* one client that is killed while an operation may be outstanding
NextKill ==
    \/ EnvLine
    \/ Pwd
    \/ \E k \in LocalPaths : UploadFile(k, Undefined)
    \/ WriteDone
    \/ WriteFail
    \/ Kill
    \/ CloseDone
    \/ KillDone

\* logMode "normal": pwd, uploadFile and kill
SpecKill == InitMode("normal") /\ [][NextKill]_vars

\* two clients, each used for pwd()
NextTwo ==
    \/ ChildConnects
    \/ ChildAnswerPwd
    \/ Pwd
    \/ WriteDone
    \/ SwitchInstance

\* logMode "normal", two instances
SpecTwo == InitMode("normal") /\ [][NextTwo]_vars

\* a SwitchableLogger used on its own
NextLogger ==
    \/ \E sev \in Severities, msg \in LogMessages, meta \in LogMetadata :
          LoggerCall(sev, msg, meta)
    \/ \E mode \in SwitchableModes : SetLoggerMode(mode)

SpecLogger == InitLogger /\ [][NextLogger]_vars

\* logMode "normal", pwd() calls only
SpecPwd == InitMode("normal") /\ [][NextPwd]_vars

\* one client whose pwd, cd and uploadFile calls may overlap, with a child
\* that may emit any line at any time
NextOverlap ==
    \/ EnvLine
    \/ ChildConfirm
    \/ ChildAnswerPwd
    \/ PwdOverlapping
    \/ \E p \in RemotePaths : CdOverlapping(p)
    \/ \E k \in LocalPaths : UploadFileOverlapping(k)
    \/ WriteDone

\* logMode "normal", overlapping calls
SpecOverlap == InitMode("normal") /\ [][NextOverlap]_vars

\* one client used through every method that sends a command, the calls
\* made without awaiting the previous one
NextChannel ==
    \/ ChildConfirm
    \/ ChildAnswerPwd
    \/ PwdOverlapping
    \/ \E p \in RemotePaths : CdOverlapping(p)
    \/ \E k \in LocalPaths : UploadFileOverlapping(k)
    \/ \E c \in PlainCalls : PlainCall(c[1], c[2])
    \/ WriteDone

\* logMode "normal", every sending method
SpecChannel == InitMode("normal") /\ [][NextChannel]_vars

\* one client on which a cd may follow another command at once, with a
\* child that may emit any line at any time
NextPrompt ==
    \/ EnvLine
    \/ \E c \in PlainCalls : PlainCall(c[1], c[2])
    \/ \E p \in RemotePaths : CdOverlapping(p)
    \/ WriteDone

\* logMode "normal": cd after other commands
SpecPrompt == InitMode("normal") /\ [][NextPrompt]_vars

\* one client, used for uploads, whose wrapped logger may throw
NextThrowingLogger ==
    \/ NextUpload
    \/ EnvLineLogThrows

\* logMode "only-unknown" or "unknown-and-error"
InitUnknownModes == Init /\ logMode \in {"only-unknown", "unknown-and-error"}
SpecThrowingLogger == InitUnknownModes /\ [][NextThrowingLogger]_vars

\* one client that may be closed or killed at any time, also while a call is
\* outstanding or before it is made
NextSettle ==
    \/ EnvLine
    \/ \E ok \in BOOLEAN : ProcessExit(ok)
    \/ Pwd
    \/ \E p \in RemotePaths : Cd(p)
    \/ \E k \in LocalPaths : UploadFile(k, Undefined)
    \/ WriteDone
    \/ WriteFail
    \/ Close
    \/ CloseWritten
    \/ CloseDone
    \/ CloseExit
    \/ Kill
    \/ KillDone

\* logMode "silent": single operations, close and kill
SpecSettle == InitMode("silent") /\ [][NextSettle]_vars

\* logMode "normal", uploadFiles and uploadFiles$, with a child that answers
\* every put it receives, a channel that completes every write and a runtime
\* that runs every continuation that is ready
LiveFiles ==
    /\ SpecFiles
    /\ WF_vars(ChildConfirm)
    /\ WF_vars(WriteDone)
    /\ WF_vars(BatchStep)

\* ------------------------------------------------------------- the claims
\* call i is a returned call of operation op whose deferred is still pending
Outstanding(i, op) ==
    /\ calls[i].op = op
    /\ calls[i].pc = "returned"
    /\ calls[i].ret = i
    /\ calls[i].dstate = "pending"

\* C1: after uploadFile(K) has registered K and written its put command,
\* processing the line `Uploading K to R` resolves the future that this
\* uploadFile call returned with true.
C1_UploadingResolvesUpload ==
    [][ \A i \in DOMAIN calls :
          ( /\ Outstanding(i, "uploadFile")
            /\ uploadInProgress[calls[i].arg] = i
            /\ HandleLine(UploadingLine(calls[i].arg, ReportedRemote(calls[i].arg))) )
          => ( /\ CallStateIn(calls', i) = "resolved"
               /\ CallValueIn(calls', i) = VTrue ) ]_vars

\* C2: a pwd() call followed by the line `Remote working directory: P`
\* resolves the pwd future with exactly P, trimmed, also when P contains ':'.
C2_PwdResolvesWithPath ==
    [][ \A i \in DOMAIN calls : \A path \in RemotePaths :
          ( /\ Outstanding(i, "pwd")
            /\ inProgress.pwd.pending = i
            /\ HandleLine(RemoteWdLine(path)) )
          => ( /\ CallStateIn(calls', i) = "resolved"
               /\ CallValueIn(calls', i) = Trim(path) ) ]_vars

\* C3: a cd(p) call followed by the line `-bash: cd: p: r`, no prompt line in
\* between, rejects the cd future with `cd into 'p' failed: r`, and the line
\* processing does not throw.
C3_BashCdRejectsWithPathAndReason ==
    [][ \A i \in DOMAIN calls : \A reason \in Reasons :
          ( /\ Outstanding(i, "cd")
            /\ inProgress.cd.pending = i
            /\ HandleLine(BashCdLine(calls[i].arg, reason)) )
          => ( /\ CallStateIn(calls', i) = "rejected"
               /\ CallValueIn(calls', i) = CdFailedMsg(calls[i].arg, reason)
               /\ ~pipeErrored' ) ]_vars

\* C4: a cd(p) call followed by a `sftp>` prompt line, no cd failure line
\* processed between the registration and the prompt (the cd is still
\* pending), resolves the cd future with no value.
C4_PromptResolvesCd ==
    [][ \A i \in DOMAIN calls :
          ( /\ Outstanding(i, "cd")
            /\ inProgress.cd.pending = i
            /\ HandleLine(PromptLine) )
          => ( /\ CallStateIn(calls', i) = "resolved"
               /\ CallValueIn(calls', i) = Undefined ) ]_vars

\* a cd call was resolved, with no value, by a prompt
C4_Witness ==
    \E i \in DOMAIN calls :
        /\ calls[i].op = "cd"
        /\ calls[i].pc = "returned"
        /\ CallState(i) = "resolved"
        /\ CallValue(i) = Undefined

\* C5: a line `stat remote: r` processed while a cd is outstanding rejects the
\* deferred of that outstanding cd, and only it, with `cd into 'p' failed: r`
\* where p is the target recorded for that cd (not a field of the line).
C5_StatRemoteUsesRecordedPath ==
    [][ \A reason \in Reasons :
          ( /\ inProgress.cd.pending # 0
            /\ calls[inProgress.cd.pending].dstate = "pending"
            /\ HandleLine(StatRemoteLine(reason)) )
          => LET i == inProgress.cd.pending IN
             /\ calls[i].op = "cd"
             /\ inProgress.cd.remotePath = calls[i].arg
             /\ calls'[i].dstate = "rejected"
             /\ calls'[i].dvalue = CdFailedMsg(calls[i].arg, reason)
             /\ \A j \in DOMAIN calls : j # i => calls'[j] = calls[j] ]_vars

\* a cd into a path with a ':' was rejected with its whole path in the
\* message, which only the `stat remote:` line produces
C5_Witness ==
    \E i \in DOMAIN calls : \E reason \in Reasons :
        /\ calls[i].op = "cd"
        /\ \E k \in DOMAIN calls[i].arg : calls[i].arg[k] = ":"
        /\ calls[i].dstate = "rejected"
        /\ calls[i].dvalue = CdFailedMsg(calls[i].arg, reason)

\* the error-severity invocations among a step's logger invocations
ErrorsOf(log) == SelectSeq(log, LAMBDA e : e.sev = "error")

\* C6: processing `Uploading K to R` when no upload is registered for K
\* settles no future, does not throw and, in the modes that forward errors,
\* produces exactly one error-severity StateMismatch diagnostic that carries
\* K and R.
C6_UnregisteredUploadIsStateMismatch ==
    [][ \A k \in LocalPaths :
          ( /\ uploadInProgress[k] = 0
            /\ HandleLine(UploadingLine(k, ReportedRemote(k))) )
          => ( /\ calls' = calls
               /\ connected' = connected
               /\ ~pipeErrored'
               /\ logMode \in {"normal", "verbose", "unknown-and-error"}
                    => ErrorsOf(stepLog') =
                         << [sev |-> "error", msg |-> "STATE_MISSMATCH",
                             labelled |-> TRUE,
                             meta |-> <<k, ReportedRemote(k)>>] >> ) ]_vars

\* C7: uploadFiles and uploadFiles$ write the put commands in input order, one
\* per file, and the command of a file is written only after the future of the
\* file before it has settled.
C7_UploadsOneAtATime ==
    /\ Len(stdin) = Len(calls)
    /\ Len(calls) <= Len(batch.files)
    /\ \A j \in DOMAIN calls :
        /\ calls[j].op = "uploadFile"
        /\ calls[j].arg = batch.files[j]
        /\ stdin[j] = Chunk(PutCommand(batch.files[j], Undefined))
        /\ j < Len(calls) => CallState(j) \in {"resolved", "rejected"}

\* the command of a second file has been written, after the first file's
\* future resolved
C7_Witness ==
    /\ Len(batch.files) = 2
    /\ Len(calls) = 2
    /\ stdin[2] = Chunk(PutCommand(batch.files[2], Undefined))
    /\ CallState(1) = "resolved"

\* C8: when the child answers every put command it receives with the
\* confirming line, uploadFiles(files) eventually resolves with one true per
\* file (unless line processing has ended or the child has exited).
C8_UploadFilesCompletes ==
    [] ( (batch.kind = "pMap" /\ batch.state = "running")
         => <> ( \/ /\ batch.state = "resolved"
                    /\ batch.result = [j \in 1..Len(batch.files) |-> VTrue]
                 \/ pipeErrored
                 \/ proc # "running" ) )

\* C9: with logMode `silent` the external logger is never invoked, whatever
\* lines are processed, operations are called or way the process exits.
C9_SilentNeverLogs == logMode = "silent" => stepLog = << >>

\* a silent client whose process exited with an error after it connected
C9_Witness ==
    /\ logMode = "silent"
    /\ proc = "exitedErr"
    /\ connected.state = "resolved"
    /\ pipeErrored

\* the logger invocation the otherwise branch makes for a line
UnknownLineEntry(line) ==
    [sev |-> "log", msg |-> "-> line", labelled |-> TRUE, meta |-> <<line>>]

AllSettled == \A i \in DOMAIN calls : CallState(i) # "pending"

\* C11: when two pwd() calls are registered before either has settled, then
\* once both pwd commands have reached the child and an answer line has been
\* processed for each of them, no pwd() future is still pending: no caller is
\* silently lost.
C11_NoPwdCallerLost ==
    ( /\ Len(calls) = MaxPwds
      /\ \A i \in DOMAIN calls : calls[i].op = "pwd" /\ calls[i].pc = "returned"
      /\ childPwds = 0 )
    => AllSettled

\* the close() calls made so far
CloseCalls == { i \in DOMAIN calls : calls[i].op = "close" }

\* C12: close() writes the `exit` command, then closes the command channel,
\* then awaits the exit of the process; it resolves only after a clean exit,
\* and when the awaited exit is clean it resolves, whether or not `connected`
\* or another operation is still pending.
C12_CloseStepsInOrder ==
    /\ [] ( \A i \in CloseCalls :
              /\ stdin[calls[i].chunk] = Chunk(<<"e","x","i","t">>)
              /\ calls[i].pc \in {"awaitClose", "awaitExit", "returned", "exitFailed"}
                   => \E q \in DOMAIN stdin : q > calls[i].chunk /\ stdin[q] = CloseMarker
              /\ calls[i].pc = "returned" => proc = "exitedOk" )
    /\ [][ \A i \in CloseCalls :
             /\ calls'[i].pc = "awaitExit" => calls[i].pc \in {"awaitClose", "awaitExit"}
             /\ ( calls[i].pc = "awaitExit" /\ proc = "exitedOk" /\ calls'[i] # calls[i] )
                  => ( /\ CallStateIn(calls', i) = "resolved"
                       /\ CallValueIn(calls', i) = Undefined ) ]_vars

\* close() has resolved while `connected` and a pwd() are still pending
C12_Witness ==
    /\ connected.state = "pending"
    /\ \E i \in CloseCalls : CallState(i) = "resolved"
    /\ \E j \in DOMAIN calls :
          calls[j].op = "pwd" /\ calls[j].pc = "returned" /\ CallState(j) = "pending"

\* C13: when the exit that close() awaits is not a success, close() rejects
\* with the exit error and the failure is logged once at error severity (in
\* the modes that forward errors); close() never resolves after an unclean
\* exit and never writes `exit` again.
C13_UncleanExitRejectsClose ==
    /\ [] ( /\ \A i \in CloseCalls : CallState(i) = "resolved" => proc = "exitedOk"
            /\ Cardinality({ q \in DOMAIN stdin : stdin[q] = Chunk(<<"e","x","i","t">>) }) <= 1 )
    /\ [][ \A i \in CloseCalls :
             /\ ( calls[i].pc = "awaitExit" /\ proc = "exitedErr" /\ calls'[i] # calls[i] )
                  => ( /\ CallStateIn(calls', i) = "rejected"
                       /\ CallValueIn(calls', i) = ExitError
                       /\ Forwards(loggerMode, "error")
                            => stepLog' = << [sev |-> "error", msg |-> "Error while exiting",
                                              labelled |-> TRUE, meta |-> <<ExitError>>] >> )
             /\ calls[i].pc = "exitFailed" => calls'[i] = calls[i] ]_vars

\* close() was rejected with the exit error
C13_Witness ==
    /\ proc = "exitedErr"
    /\ \E i \in CloseCalls :
          CallState(i) = "rejected" /\ CallValue(i) = ExitError
    /\ \E e \in DOMAIN stepLog : stepLog[e].msg = "Error while exiting"

\* the kill() calls made so far
KillCalls == { i \in DOMAIN calls : calls[i].op = "kill" }

\* a step of kill(): the call is made, or goes on after one of its awaits
KillStep ==
    \/ Len(calls') > Len(calls) /\ calls'[Len(calls')].op = "kill"
    \/ \E i \in KillCalls : calls'[i] # calls[i]

\* C17: no step of kill() resolves or rejects a pending pwd, cd, upload or
\* `connected` future, and none changes the registry.
C17_KillSweepsNothing ==
    [][ KillStep =>
          /\ inProgress' = inProgress
          /\ uploadInProgress' = uploadInProgress
          /\ connected' = connected
          /\ \A j \in DOMAIN calls : j \notin KillCalls => calls'[j] = calls[j] ]_vars

\* kill() has returned and the process is gone, while `connected` and the
\* future of a returned call are still pending and still registered
C17_Witness ==
    /\ \E i \in KillCalls : calls[i].pc = "returned"
    /\ proc # "running"
    /\ connected.state = "pending"
    /\ \E j \in DOMAIN calls :
          /\ calls[j].op \in {"pwd", "uploadFile"}
          /\ calls[j].pc = "returned"
          /\ CallState(j) = "pending"
          /\ \/ inProgress.pwd.pending = j
             \/ \E k \in LocalPaths : uploadInProgress[k] = j

\* C14: processing a line never throws and never ends line processing, also
\* for a line that has a recognized prefix but lacks its fields.
C14_LineProcessingNeverThrows == ~pipeErrored

\* C15: `connected` is only ever pending or resolved with true; the first
\* processed line that starts with `Connected` resolves it, nothing else
\* settles it, and once it is resolved no step changes it: a later
\* `Connected` line settles nothing (it only logs the milestone again).
C15_ConnectedOnce ==
    /\ [] ( /\ connected.state \in {"pending", "resolved"}
            /\ connected.state = "resolved" => connected.value = VTrue )
    /\ [][ /\ connected.state = "resolved" => connected' = connected
           /\ connected' # connected => HandleLine(ConnectedLine)
           /\ HandleLine(ConnectedLine)
                => ( /\ connected' = [state |-> "resolved", value |-> VTrue]
                     /\ calls' = calls ) ]_vars

\* `connected` is resolved with true while a cd that was issued is rejected
C15_Witness ==
    /\ connected = [state |-> "resolved", value |-> VTrue]
    /\ \E i \in DOMAIN calls : calls[i].op = "cd" /\ CallState(i) = "rejected"

\* C16: two SftpClient instances share no state: a step of one instance (an
\* operation call, a processed line, a completed write, an exit) leaves the
\* registry, the `connected` future, the logger mode and every future of the
\* other instance unchanged.
C16_InstancesShareNothing ==
    [][ \/ peer' = peer
        \/ peer' = ThisInstance /\ ThisInstance' = peer ]_vars

\* one instance is connected and has its pwd() answered while the pwd() of
\* the other instance is outstanding and that instance is not connected
C16_Witness ==
    /\ connected.state = "resolved"
    /\ \E i \in DOMAIN calls : calls[i].op = "pwd" /\ CallState(i) = "resolved"
    /\ peer.connected.state = "pending"
    /\ peer.inProgress.pwd.pending = 1
    /\ peer.calls[1].pc = "returned"
    /\ peer.calls[1].dstate = "pending"

\* the severities that the logger is to forward in each mode
ForwardedIn(mode) ==
    CASE mode = "normal"  -> {"log", "info", "warn", "error"}
      [] mode = "verbose" -> {"debug", "log", "info", "warn", "error"}
      [] mode = "silent"  -> {}
      [] mode = "error"   -> {"error"}
      [] mode = "warn"    -> {"warn", "error"}

\* C18: for every mode and severity, a call of the session logger reaches the
\* wrapped logger exactly when the mode forwards that severity (normal: log,
\* info, warn, error; verbose: all five; silent: none; error: error only;
\* warn: warn and error), and then as one call of the same method with the
\* same message and metadata.
C18_SeverityGating ==
    [][ \A sev \in Severities, msg \in LogMessages, meta \in LogMetadata :
          LoggerCall(sev, msg, meta)
          => stepLog' = IF sev \in ForwardedIn(loggerMode)
                        THEN << [sev |-> sev, msg |-> msg, labelled |-> FALSE,
                                 meta |-> meta] >>
                        ELSE << >> ]_vars

\* in mode `warn` a warning with metadata was forwarded
C18_Witness ==
    /\ loggerMode = "warn"
    /\ stepLog = << [sev |-> "warn", msg |-> "m2", labelled |-> FALSE,
                     meta |-> <<VTrue, Undefined>>] >>

\* C19 as claimed: with logMode `unknown-and-error` every logger invocation of
\* a step is of error severity, or is the single info-severity forwarding of
\* an unrecognized line, and every unrecognized line is forwarded so.
C19_UnknownLinesAtInfo ==
    /\ [] ( logMode = "unknown-and-error" =>
              \/ \A e \in DOMAIN stepLog : stepLog[e].sev = "error"
              \/ \E line \in Lines :
                    /\ Classify(line) = "Otherwise"
                    /\ stepLog = << [UnknownLineEntry(line) EXCEPT !.sev = "info"] >> )
    /\ [][ \A line \in Lines :
             ( /\ logMode = "unknown-and-error"
               /\ Classify(line) = "Otherwise"
               /\ HandleLine(line) )
             => stepLog' = << [UnknownLineEntry(line) EXCEPT !.sev = "info"] >> ]_vars

\* C19, amended: with logMode `unknown-and-error` every unrecognized line is
\* forwarded exactly once through the logger's `log` method (not `info`), and
\* every other logger invocation is of error severity: milestone info
\* messages and debug output never reach the logger.
C19_UnknownLinesAtLog ==
    /\ [] ( logMode = "unknown-and-error" =>
              \/ \A e \in DOMAIN stepLog : stepLog[e].sev = "error"
              \/ \E line \in Lines :
                    /\ Classify(line) = "Otherwise"
                    /\ stepLog = << UnknownLineEntry(line) >> )
    /\ [][ \A line \in Lines :
             ( /\ logMode = "unknown-and-error"
               /\ Classify(line) = "Otherwise"
               /\ HandleLine(line) )
             => stepLog' = << UnknownLineEntry(line) >> ]_vars

\* with logMode `unknown-and-error` an unrecognized line was forwarded after
\* a `Connected` line had been processed
C19_Witness ==
    /\ logMode = "unknown-and-error"
    /\ loggerMode = "error"
    /\ connected.state = "resolved"
    /\ stepLog = << UnknownLineEntry(UnknownLine) >>

\* the debug invocation that carries a raw line
RawLineEntry(line) ==
    [sev |-> "debug", msg |-> "rawOut", labelled |-> TRUE, meta |-> <<line>>]

\* the debug-severity invocations among a step's logger invocations
DebugsOf(log) == SelectSeq(log, LAMBDA e : e.sev = "debug")

\* C20: with logMode `verbose` every processed line, recognized or not and
\* also one whose branch throws, produces exactly one debug invocation that
\* carries the raw line, and it is the first logger invocation of that line;
\* with logMode `normal` no debug invocation ever reaches the logger.
C20_VerboseLogsRawLineFirst ==
    /\ [] ( logMode = "normal" => DebugsOf(stepLog) = << >> )
    /\ [][ \A line \in Lines :
             ( logMode = "verbose" /\ HandleLine(line) )
             => ( /\ stepLog' # << >>
                  /\ stepLog'[1] = RawLineEntry(line)
                  /\ DebugsOf(stepLog') = << RawLineEntry(line) >> ) ]_vars

\* with logMode `verbose` a line that resolved an upload was logged raw first
\* and as a milestone second
C20_Witness ==
    /\ logMode = "verbose"
    /\ Len(stepLog) = 2
    /\ stepLog[1].sev = "debug"
    /\ stepLog[2].msg = "Uploaded"
    /\ \E i \in DOMAIN calls : calls[i].op = "uploadFile" /\ CallState(i) = "resolved"

\* the calls whose deferreds the registry holds: the two slots of
\* this.inProgress and the values of this.uploadInProgress
Registered ==
    { inProgress.pwd.pending, inProgress.cd.pending }
    \cup { uploadInProgress[k] : k \in LocalPaths }

\* C21: registry entries are removed on settlement, so in every reachable
\* state each entry of the registry (an upload key, the pwd slot, the cd slot)
\* holds a future that is still unsettled.
C21_RegistryHoldsOnlyUnsettled ==
    \A i \in Registered : i # 0 => calls[i].dstate = "pending"

\* the lines with which the child reports a failed cd
CdFailureLines ==
    { BashCdLine(p, r) : p \in RemotePaths, r \in Reasons }
    \cup { StatRemoteLine(r) : r \in Reasons }

\* C22: once the future of a cd has been resolved or rejected and no new cd
\* has been issued, a further cd failure line or prompt line settles nothing,
\* and a further failure line is reported as a StateMismatch at error
\* severity in the modes that forward errors.
C22_SettledCdIsTerminal ==
    [][ \A i \in DOMAIN calls : \A line \in CdFailureLines \cup {PromptLine} :
          ( /\ calls[i].op = "cd"
            /\ calls[i].dstate # "pending"
            /\ \A j \in DOMAIN calls : j > i => calls[j].op # "cd"
            /\ HandleLine(line) )
          => ( /\ calls' = calls
               /\ ( /\ line \in CdFailureLines
                    /\ logMode \in {"normal", "verbose", "unknown-and-error"} )
                  => \E n \in DOMAIN stepLog' :
                        /\ stepLog'[n].sev = "error"
                        /\ stepLog'[n].msg = "DEV ERROR reject" ) ]_vars

\* C23: a `Remote working directory:` line processed while no pwd is
\* outstanding (none was issued, or the last one has settled) settles no
\* future, does not throw, and is reported as a StateMismatch at error
\* severity in the modes that forward errors.
C23_UnexpectedPwdAnswerIsStateMismatch ==
    [][ \A path \in RemotePaths :
          ( /\ \A i \in DOMAIN calls : calls[i].op = "pwd" => calls[i].dstate # "pending"
            /\ HandleLine(RemoteWdLine(path)) )
          => ( /\ calls' = calls
               /\ ~pipeErrored'
               /\ logMode \in {"normal", "verbose", "unknown-and-error"}
                  => \E n \in DOMAIN stepLog' :
                        /\ stepLog'[n].sev = "error"
                        /\ stepLog'[n].msg = "DEV ERROR resolve" ) ]_vars

\* C24: when uploadFile(K) is called twice before a confirming line for K is
\* processed, the second call replaces the registry entry for K: the first
\* confirming line `Uploading K to R` settles the future of the second call,
\* and no line settles the future of the first call.
C24_SecondUploadReplacesFirst ==
    [][ \A i, j \in DOMAIN calls : \A line \in Lines :
          ( /\ i < j
            /\ calls[i].op = "uploadFile" /\ calls[j].op = "uploadFile"
            /\ calls[i].arg = calls[j].arg
            /\ calls[i].dstate = "pending" /\ calls[j].dstate = "pending"
            /\ HandleLine(line) )
          => ( /\ calls'[i].dstate = "pending"
               /\ line = UploadingLine(calls[j].arg, ReportedRemote(calls[j].arg))
                  => ( /\ calls'[j].dstate = "resolved"
                       /\ calls'[j].dvalue = VTrue ) ) ]_vars

\* the lines with which the child confirms call i: the answer to a pwd, the
\* prompt after a cd, the `Uploading` line of an uploaded file
ConfirmingLines(i) ==
    CASE calls[i].op = "pwd"        -> { RemoteWdLine(p) : p \in RemotePaths }
      [] calls[i].op = "cd"         -> { PromptLine }
      [] calls[i].op = "uploadFile" -> { UploadingLine(calls[i].arg, ReportedRemote(calls[i].arg)) }
      [] OTHER                      -> { }

\* call i is registered and its future is unsettled
InRegistry(i) ==
    /\ calls[i].dstate = "pending"
    /\ CASE calls[i].op = "pwd"        -> inProgress.pwd.pending = i
         [] calls[i].op = "cd"         -> inProgress.cd.pending = i
         [] calls[i].op = "uploadFile" -> uploadInProgress[calls[i].arg] = i
         [] OTHER                      -> FALSE

\* C25: operations settle in line-arrival order, not issue order: of two
\* outstanding operations A and B with different registry entries, issued in
\* the order A, B, the one whose confirming line is processed first settles
\* first; B's confirming line settles B and leaves A pending.
C25_SettleInLineOrder ==
    [][ \A a, b \in DOMAIN calls : \A line \in Lines :
          ( /\ a < b
            /\ InRegistry(a) /\ InRegistry(b)
            /\ calls[a].op # calls[b].op \/ calls[a].arg # calls[b].arg
            /\ line \in ConfirmingLines(b)
            /\ HandleLine(line) )
          => ( /\ calls'[b].dstate = "resolved"
               /\ calls'[a].dstate = "pending" ) ]_vars

\* the branches of the line callback that settle an operation of kind op
MatchingBranches(op) ==
    CASE op = "pwd"        -> {"RemoteWd"}
      [] op = "cd"         -> {"BashCd", "StatRemote", "Prompt"}
      [] op = "uploadFile" -> {"Uploading"}
      [] OTHER             -> { }

\* this step delivers a line of a pattern that belongs to operation op
MatchingLineStep(op) ==
    \E line \in Lines :
        /\ Classify(line) \in MatchingBranches(op)
        /\ HandleLine(line)

\* C26 as stated: the future returned to the caller of pwd(), cd() or
\* uploadFile() changes from pending to settled only in a step that processes
\* a matching output line; no facade call, close() or kill() settles or
\* rejects it.
C26_SettledOnlyByMatchingLine ==
    [][ \A i \in DOMAIN calls :
          ( /\ calls[i].op \in {"pwd", "cd", "uploadFile"}
            /\ CallState(i) = "pending"
            /\ CallStateIn(calls', i) # "pending" )
          => MatchingLineStep(calls[i].op) ]_vars

\* C26, amended: the future returned to the caller of pwd(), cd() or
\* uploadFile() changes from pending to settled only in a step that processes
\* a matching output line, or in the step that ends the write of the call's
\* own command: it rejects if that write fails, and it follows its operation
\* if a matching line was processed before the write completed. No other
\* step, of another facade call, of close() or of kill(), settles or rejects it.
C26_SettledOnlyByLineOrOwnWrite ==
    [][ \A i \in DOMAIN calls :
          ( /\ calls[i].op \in {"pwd", "cd", "uploadFile"}
            /\ CallState(i) = "pending"
            /\ CallStateIn(calls', i) # "pending" )
          => \/ MatchingLineStep(calls[i].op)
             \/ calls[i].pc = "awaitWrite" /\ calls'[i].pc # "awaitWrite" ]_vars

\* a call made after kill() closed the command channel was rejected by its
\* failed write, while no line was ever matched to it
C26_Witness ==
    \E i, j \in DOMAIN calls :
        /\ calls[j].op = "kill"
        /\ j < i
        /\ calls[i].op \in {"pwd", "cd", "uploadFile"}
        /\ calls[i].pc = "writeFailed"
        /\ calls[i].dstate = "pending"
        /\ CallState(i) = "rejected"

\* the callback finds no registered operation for the line: the Uploading
\* branch finds no upload, resolveInProgress / rejectInProgress find no slot
IsStateMismatch(line) ==
    LET tag == Classify(line) IN
    /\ ~LineEffect(line).threw
    /\ CASE tag = "Uploading" -> UploadGet(UploadingFields(line).localPath) = 0
         [] tag = "RemoteWd"  -> InProgressOf("pwd") = 0
         [] tag \in {"BashCd", "StatRemote"} -> InProgressOf("cd") = 0
         [] OTHER -> FALSE

\* each of the lines that confirm call i would settle the future of call i
SettledByItsLine(i) ==
    \A line \in ConfirmingLines(i) : LineEffect(line).calls[i].dstate # "pending"

\* C27: a StateMismatch never ends the session: the step that reports it
\* does not throw and changes neither the registry nor any future, and
\* afterwards a matching line still settles every outstanding operation.
C27_StateMismatchKeepsSession ==
    [][ \A line \in Lines :
          ( IsStateMismatch(line) /\ HandleLine(line) )
          => ( /\ inProgress' = inProgress
               /\ uploadInProgress' = uploadInProgress
               /\ calls' = calls
               /\ ~pipeErrored'
               /\ (\A i \in DOMAIN calls : InRegistry(i) => SettledByItsLine(i))' ) ]_vars

\* the call whose deferred the registry holds under the slot or key of call i
\* (0: no entry)
EntryFor(i) ==
    CASE calls[i].op = "pwd"        -> inProgress.pwd.pending
      [] calls[i].op = "cd"         -> inProgress.cd.pending
      [] calls[i].op = "uploadFile" -> UploadGet(calls[i].arg)
      [] OTHER                      -> 0

\* C28: for pwd(), cd() and uploadFile() the registry entry of a call exists
\* by the time its command text has been handed to the command channel, so
\* that no line answering the command can be processed while the entry for
\* the command is missing.
C28_RegisteredBeforeWritten ==
    \A i \in DOMAIN calls :
        ( /\ calls[i].op \in {"pwd", "cd", "uploadFile"}
          /\ calls[i].chunk <= Len(stdin) )
        => ( /\ EntryFor(i) >= i
             /\ calls[EntryFor(i)].op = calls[i].op
             /\ calls[i].op = "uploadFile" => calls[EntryFor(i)].arg = calls[i].arg )

\* the answer to a pwd command was processed and found the entry of the call
C28_Witness ==
    \E i \in DOMAIN calls :
        /\ calls[i].op = "pwd"
        /\ stdin[calls[i].chunk] = Chunk(<<"p","w","d">>)
        /\ EntryFor(i) = i
        /\ calls[i].dstate = "resolved"

\* the word with which the command of each method starts
Keyword(op) ==
    CASE op = "pwd"          -> <<"p","w","d">>
      [] op = "cd"           -> <<"c","d"," ">>
      [] op = "uploadFile"   -> <<"p","u","t"," ">>
      [] op = "ls"           -> <<"l","s">>
      [] op = "lls"          -> <<"l","l","s">>
      [] op = "lcd"          -> <<"l","c","d"," ">>
      [] op = "help"         -> <<"h","e","l","p">>
      [] op = "downloadFile" -> <<"g","e","t"," ">>
      [] op = "sendCommand"  -> <<"b","y","e">>

\* the positions of the line terminators in a chunk
Terminators(chunk) == { n \in DOMAIN chunk : chunk[n] = "\n" }

\* C29: every facade call hands exactly one command to the command channel,
\* terminated by one line terminator, and the commands reach the channel in
\* the order in which the methods were called, also when calls are made
\* without awaiting the previous one.
C29_OneCommandPerCallInOrder ==
    /\ Len(stdin) = Len(calls)
    /\ \A i \in DOMAIN calls :
        /\ calls[i].chunk = i
        /\ StartsWith(stdin[i], Keyword(calls[i].op))
        /\ Terminators(stdin[i]) = { Len(stdin[i]) }

\* two commands were handed to the channel in the order of their calls, the
\* first with its optional argument, while neither write had completed
C29_Witness ==
    /\ Len(calls) = 2
    /\ calls[1].pc = "awaitWrite" /\ calls[2].pc = "awaitWrite"
    /\ calls[1].op = "downloadFile"
    /\ stdin[1] = <<"g","e","t"," ","/","u","p"," ","p","\n">>
    /\ calls[2].op = "pwd"
    /\ stdin[2] = <<"p","w","d","\n">>

\* C30: every public operation, downloadFile, sendCommand, ls and lls
\* included, registers a pending operation before it writes its command and
\* returns the future of that operation, which settles when a line of the
\* output completes the operation, not as soon as the command is written.
C30_EveryOperationIsRegistered ==
    /\ [] ( \A i \in DOMAIN calls :
              ( calls[i].op \in {"downloadFile", "sendCommand", "ls", "lls"}
                /\ calls[i].pc = "returned" )
              => calls[i].ret # 0 )
    /\ [][ \A i \in DOMAIN calls :
             ( /\ calls[i].op \in {"downloadFile", "sendCommand", "ls", "lls"}
               /\ CallState(i) = "pending"
               /\ CallStateIn(calls', i) # "pending" )
             => \E line \in Lines : HandleLine(line) ]_vars

\* C31: a `sftp>` prompt line settles at most the outstanding cd: it never
\* settles a pwd, an upload or the `connected` future, and when no cd is
\* outstanding it leaves the registry and every future unchanged and causes
\* no logger invocation above debug severity.
C31_PromptSettlesOnlyCd ==
    [][ HandleLine(PromptLine) =>
          /\ connected' = connected
          /\ inProgress' = inProgress
          /\ uploadInProgress' = uploadInProgress
          /\ \A i \in DOMAIN calls :
                calls'[i] # calls[i]
                => ( /\ calls[i].op = "cd"
                     /\ InRegistry(i)
                     /\ calls'[i] = [calls[i] EXCEPT !.dstate = "resolved",
                                                     !.dvalue = Undefined] )
          /\ (\A i \in DOMAIN calls : ~(calls[i].op = "cd" /\ InRegistry(i)))
             => ( /\ calls' = calls
                  /\ \A n \in DOMAIN stepLog' : stepLog'[n].sev = "debug" ) ]_vars

\* a prompt line was processed while a pwd was outstanding and left it so
C31_Witness ==
    /\ stepLog = << RawLineEntry(PromptLine) >>
    /\ \E i \in DOMAIN calls :
          /\ calls[i].op = "pwd"
          /\ calls[i].pc = "returned"
          /\ InRegistry(i)

\* the lines that attempt to settle a future: the full forms of every
\* recognized line
SettlingLines ==
    {ConnectedLine, PromptLine} \cup CdFailureLines
    \cup { UploadingLine(k, ReportedRemote(k)) : k \in LocalPaths }
    \cup { RemoteWdLine(p) : p \in RemotePaths }

\* C32: every future (connected, pwd, cd, upload) is settled at most once:
\* once it is resolved or rejected no later line or operation changes its
\* outcome or value, and a repeated attempt to settle is ignored without
\* throwing.
C32_SettledAtMostOnce ==
    /\ [][ /\ connected.state # "pending" => connected' = connected
           /\ \A i \in DOMAIN calls :
                 calls[i].dstate # "pending"
                 => ( /\ calls'[i].dstate = calls[i].dstate
                      /\ calls'[i].dvalue = calls[i].dvalue ) ]_vars
    /\ [][ \A line \in SettlingLines : HandleLine(line) => ~pipeErrored' ]_vars

\* after a pwd had resolved with one path, the answer line of another path
\* was processed, without effect and without a diagnostic
C32_Witness ==
    /\ stepLog = << RawLineEntry(RemoteWdLine(<<"/","s","r","v","/","a",":","b">>)) >>
    /\ \E i \in DOMAIN calls :
          /\ calls[i].op = "pwd"
          /\ calls[i].dstate = "resolved"
          /\ calls[i].dvalue = <<"/","h","o","m","e","/","x">>

\* C33: every message the session hands to the logger (line diagnostics,
\* milestone messages, StateMismatch errors, exit messages) carries the
\* configured label uploaderName.
C33_EveryMessageLabelled ==
    \A n \in DOMAIN stepLog : stepLog[n].labelled

\* C34: the future returned to the caller of pwd(), or of cd(p), is the
\* future that this same call registered, also when a second pwd(), or cd,
\* is invoked before the command write of the first has completed.
C34_CallerGetsOwnFuture ==
    \A i \in DOMAIN calls :
        ( calls[i].op \in {"pwd", "cd"} /\ calls[i].pc = "returned" )
        => calls[i].ret = i

\* C35: when cd(p) is issued while the prompt line of an earlier command
\* (ls) has not been processed yet, that prompt does not resolve the cd: a
\* prompt processed before the cd command has even been written leaves the
\* future of the cd pending, so that a failure line which answers the cd can
\* still reject it.
C35_StalePromptDoesNotResolveCd ==
    [][ \A i, j \in DOMAIN calls :
          ( /\ j < i
            /\ calls[j].op = "ls"
            /\ calls[i].op = "cd"
            /\ calls[i].pc = "awaitWrite"
            /\ InRegistry(i)
            /\ HandleLine(PromptLine) )
          => calls'[i].dstate = "pending" ]_vars

\* C36: kill() terminates the child process in every state of the session,
\* also when close() was called before and still waits for the process to
\* exit: once a kill() call is over, the process no longer runs.
C36_KillAlwaysTerminates ==
    \A i \in DOMAIN calls :
        ( calls[i].op = "kill" /\ calls[i].pc \notin {"awaitClose", "awaitKill"} )
        => proc # "running"

\* C37: when the write of its command fails, pwd(), cd() or uploadFile()
\* rejects and the registry is left as it was before the call: no entry of
\* the failed call remains registered.
C37_FailedWriteLeavesNoEntry ==
    \A i \in DOMAIN calls :
        ( calls[i].op \in {"pwd", "cd", "uploadFile"} /\ calls[i].pc = "writeFailed" )
        => ( /\ CallState(i) = "rejected"
             /\ i \notin Registered )

\* C38: in the modes `only-unknown` and `unknown-and-error` the mode of the
\* logger after the processing of every line is the one set at construction
\* (`silent`, `error`), also when the log method of the wrapped logger
\* throws: the switch to `normal` made for an unrecognized line applies to no
\* other log call.
C38_LoggerModeRestored ==
    /\ logMode = "only-unknown" => loggerMode = "silent"
    /\ logMode = "unknown-and-error" => loggerMode = "error"

\* C39: the future of an upload is only ever resolved, with true: no line of
\* the output rejects it or resolves it with another value, so that a run of
\* uploadFiles is never cut short because of an output line (only a failed
\* write rejects a call of uploadFile).
C39_UploadOnlyResolvesTrue ==
    /\ \A i \in DOMAIN calls :
          calls[i].op = "uploadFile"
          => ( /\ calls[i].dstate # "rejected"
               /\ calls[i].dstate = "resolved" => calls[i].dvalue = VTrue
               /\ CallState(i) = "rejected" => calls[i].pc = "writeFailed" )
    /\ batch.state = "rejected"
       => ( batch.cur # 0 /\ calls[batch.cur].pc = "writeFailed" )

\* a run of uploadFiles over two files resolved with true for each, although
\* line processing had ended with an exception in the meantime
C39_Witness ==
    /\ batch.kind = "pMap"
    /\ batch.state = "resolved"
    /\ batch.result = << VTrue, VTrue >>
    /\ pipeErrored

====
